---- MODULE Spec2Model ----
(***************************************************************************)
(* Reactive execution engine of the sept notebook API: the cell store      *)
(* (cellService), the dependency graph (dagService), the per-project       *)
(* execution queue (ExecutionQueueService) and the GraphQL mutations that  *)
(* drive them.                                                             *)
(***************************************************************************)
EXTENDS Integers, Sequences, FiniteSets, TLC

VARIABLES
    cells,        \* the cells table: cell id -> row (DOMAIN = the rows that exist)
    autoExecute,  \* the projects table: project id -> auto_execute
    workers,      \* ExecutionQueueService.workers: the project ids that have a worker promise
    stopSignals,  \* ExecutionQueueService.stopSignals: project id -> boolean (partial map)
    wk,           \* position and locals of each project's processQueue loop
    reqs,         \* the calls in flight: enqueue, Mutation.executeCell, markCellDependentsStale
    clock,        \* the wall clock read by new Date(): it ticks when a request arrives
    dag,          \* the last result a dagService function returned (specification SpecDag)
    collab,       \* the compute service behind fetch: "ok" always succeeds, "flaky" may fail
    bus           \* the Redis connection behind pubsub: "up", or "down" (publish rejects)

vars == <<cells, autoExecute, workers, stopSignals, wk, reqs, clock, dag, collab, bus>>

(***************************************************************************)
(* Bounds                                                                  *)
(***************************************************************************)
MaxCells == 3    \* cell ids
MaxClock == 2    \* requests that arrive from outside in one behaviour (one clock tick each)
Started == 2     \* the clock when the service starts: no stored queuedAt is later

CellIds == 1..MaxCells
Projects == DOMAIN autoExecute   \* the rows of the projects table
NULL == "null"   \* null for strings
NoCell == 0      \* getById found no row
NoTime == 0      \* queued_at is null
NaN == -1

(***************************************************************************)
(* cells.order is a varchar: a string, here a sequence of characters.      *)
(***************************************************************************)
DigitChars == <<"0", "1", "2", "3", "4", "5", "6", "7", "8", "9">>

IsDigit(ch) == \E i \in 1..10 : DigitChars[i] = ch

DigitValue(ch) == (CHOOSE i \in 1..10 : DigitChars[i] = ch) - 1

RECURSIVE ParseDigits(_, _, _)
ParseDigits(s, i, acc) ==
    IF i > Len(s) \/ ~IsDigit(s[i]) THEN acc
    ELSE ParseDigits(s, i + 1, acc * 10 + DigitValue(s[i]))

\* parseInt(cell.order || '0', 10): the leading run of decimal digits, NaN when
\* there is none; the empty string and null are read as '0'.
parseInt(s) ==
    LET t == IF s = <<>> THEN <<"0">> ELSE s
    IN  IF ~IsDigit(t[1]) THEN NaN ELSE ParseDigits(t, 1, 0)

(***************************************************************************)
(* dagService                                                              *)
(***************************************************************************)
\* A select that would leave out the where on project_id.
ProjectCellsAll(rows, p) == DOMAIN rows

ProjectCells(rows, p) == { id \in DOMAIN rows : rows[id].projectId = p }

\* The orders in which a select can return the rows of S.
RECURSIVE Arrangements(_)
Arrangements(S) ==
    IF S = {} THEN { <<>> }
    ELSE UNION { { <<x>> \o t : t \in Arrangements(S \ {x}) } : x \in S }

\* The comparator of the sort: a.order - b.order.
CompareOrder(a, b) == a - b

\* projectCells.map(...).sort((a, b) => a.order - b.order): the select has no
\* ORDER BY, so rows arrive in any order; the sort is stable, so rows whose parsed
\* orders tie keep their arrival order.  Every arrangement that is sorted by the
\* parsed order is a possible value of sortedCells.
SortedCells(rows, p) ==
    { s \in Arrangements(ProjectCells(rows, p)) :
        \A i, j \in 1..Len(s) :
            i < j => CompareOrder(parseInt(rows[s[i]].order), parseInt(rows[s[j]].order)) <= 0 }

\* for (let j = i - 1; j >= 0; j--) { if (prevCell.writes.includes(readVar)) ... break }
\* The id of the writer found, or NoCell when the scan reaches the front.
RECURSIVE ScanBack(_, _, _, _)
ScanBack(rows, sorted, j, readVar) ==
    IF j < 1 THEN NoCell
    ELSE IF readVar \in rows[sorted[j]].writes THEN sorted[j]
    ELSE ScanBack(rows, sorted, j - 1, readVar)

\* A scan that would start at the end of sortedCells, so that a cell can find
\* itself or a later cell as the writer.
DependenciesAnywhere(rows, sorted, i) ==
    { ScanBack(rows, sorted, Len(sorted), readVar) : readVar \in rows[sorted[i]].reads } \ {NoCell}

\* The Set `dependencies` of the cell at position i.
Dependencies(rows, sorted, i) ==
    { ScanBack(rows, sorted, i - 1, readVar) : readVar \in rows[sorted[i]].reads } \ {NoCell}

IsDependentAt(rows, sorted, depId, i) == depId \in Dependencies(rows, sorted, i)

RECURSIVE DependentsFrom(_, _, _, _)
DependentsFrom(rows, sorted, depId, i) ==
    IF i > Len(sorted) THEN <<>>
    ELSE (IF IsDependentAt(rows, sorted, depId, i) THEN <<sorted[i]>> ELSE <<>>)
         \o DependentsFrom(rows, sorted, depId, i + 1)

\* dagService.buildDependencyGraph on the arrangement `sorted`:
\* cell id -> the ids of its dependents, in the order they were pushed.
buildDependencyGraph(rows, sorted) ==
    [ id \in { sorted[i] : i \in 1..Len(sorted) } |-> DependentsFrom(rows, sorted, id, 1) ]

\* graph.get(id) || []
GraphGet(graph, id) == IF id \in DOMAIN graph THEN graph[id] ELSE <<>>

SeqRange(s) == { s[i] : i \in 1..Len(s) }

\* dagService.getAllDependents: the dfs closure, which pushes every dependent it
\* meets on `result` before the visited test of the recursive call.
RECURSIVE Dfs(_, _, _)
RECURSIVE DfsLoop(_, _, _, _)
Dfs(graph, id, st) ==
    IF id \in st.visited THEN st
    ELSE DfsLoop(graph, GraphGet(graph, id), 1,
                 [visited |-> st.visited \cup {id}, result |-> st.result])

DfsLoop(graph, directDependents, k, st) ==
    IF k > Len(directDependents) THEN st
    ELSE DfsLoop(graph, directDependents, k + 1,
                 Dfs(graph, directDependents[k],
                     [st EXCEPT !.result = Append(@, directDependents[k])]))

\* Only the direct dependents: the closure cut after one step.
getDirectDependents(graph, cellId) == GraphGet(graph, cellId)

getAllDependents(graph, cellId) == Dfs(graph, cellId, [visited |-> {}, result |-> <<>>]).result

\* Updates that would flip a stale dependent back to idle.
SetStaleFlip(rows, dependents) ==
    [ id \in DOMAIN rows |->
        IF id \in SeqRange(dependents)
        THEN [rows[id] EXCEPT !.executionState = IF @ = "stale" THEN "idle" ELSE "stale"]
        ELSE rows[id] ]

\* The updates of markDependentsAsStale: db.update(cells).set({ executionState:
\* 'stale' }).where(eq(cells.id, depId)) for every depId; a missing row is no error.
SetStale(rows, dependents) ==
    [ id \in DOMAIN rows |->
        IF id \in SeqRange(dependents) THEN [rows[id] EXCEPT !.executionState = "stale"]
        ELSE rows[id] ]

(***************************************************************************)
(* cellService                                                             *)
(***************************************************************************)
\* An update that would copy every field of its input.
UpdateDataAll(input) == DOMAIN input

\* The fields of its input that cellService.update copies into updateData:
\*   if (input.type) ...; if (input.code !== undefined) ...;
\*   if (input.order) ...; if (input.outputs !== undefined) ...
\* Any other field of the input object (executionState, queuedAt, reads, writes,
\* lastExecutedAt, executionDuration) is not copied.  updatedAt is not modelled.
UpdateData(input) ==
    { f \in DOMAIN input :
        \/ f = "type" /\ input[f] # NULL
        \/ f = "code"
        \/ f = "order" /\ input[f] # <<>>
        \/ f = "outputs" }

\* cellService.update(id, input): db.update(cells).set(updateData).where(eq(cells.id, id))
update(rows, id, input) ==
    IF id \notin DOMAIN rows THEN rows
    ELSE [rows EXCEPT ![id] =
            [ f \in DOMAIN rows[id] |-> IF f \in UpdateData(input) THEN input[f] ELSE rows[id][f] ]]

\* cellService.delete(id)
delete(rows, id) == [ c \in DOMAIN rows \ {id} |-> rows[c] ]

\* A getById that would find a row for every id.
FoundAlways(rows, id) == TRUE

\* cellService.getById(id): result[0] || null
Found(rows, id) == id \in DOMAIN rows

\* cell.projectId of the row getById returned
ProjectOf(rows, id) == IF id \in DOMAIN rows THEN rows[id].projectId ELSE NULL

(***************************************************************************)
(* The rows and the calls in flight                                        *)
(***************************************************************************)
Row(p, code, order, reads, writes, state, queuedAt, outputs) ==
    [ projectId |-> p, type |-> "python", code |-> code, order |-> order,
      reads |-> reads, writes |-> writes, executionState |-> state,
      queuedAt |-> queuedAt, outputs |-> outputs ]

\* The answers of the compute service: { success, outputs, dependencies: { reads, writes } }
Answers ==
    { [success |-> TRUE, reads |-> {"x"}, writes |-> {"y"}],
      [success |-> FALSE, reads |-> {}, writes |-> {}] }

\* What fetch(`${COMPUTE_SERVICE_URL}/execute`) can resolve to.  The call carries no
\* signal and no timeout: while the compute service is silent it stays pending.
CollabAnswers ==
    IF collab = "ok" THEN { a \in Answers : a.success }
    ELSE IF collab = "silent" THEN {}
    ELSE Answers

\* A publishCellUpdate that would await pubsub.publish and let its failure out.
PublishRaisesFailure(failed) == failed

\* publishCellUpdate calls pubsub.publish(topic, payload) and drops the promise it
\* returns: no await, no catch.  Whether the publish failed or not, nothing is
\* raised into the caller.
PublishRaises(failed) == FALSE

\* pubsub.publish rejects
PublishFailed == bus = "down"

NoRes == [success |-> FALSE, reads |-> {}, writes |-> {}]

WkIdle == [pc |-> "none", cell |-> NoCell, at |-> NoTime, res |-> NoRes, deps |-> <<>>]

Req(kind, cell, pc, proj, at, res, deps) ==
    [kind |-> kind, cell |-> cell, pc |-> pc, proj |-> proj, at |-> at, res |-> res, deps |-> deps]

NewReq(kind, cell) == Req(kind, cell, "get", NULL, NoTime, NoRes, <<>>)

\* What a call of dagService threw: the message of the Error, and the cell ids the
\* message names.
NoError == [message |-> "", cellIds |-> {}]

\* new Error('Cannot compute execution order: circular dependency detected')
CircularDependencyError ==
    [message |-> "Cannot compute execution order: circular dependency detected",
     cellIds |-> {}]

\* The last call of dagService: its arguments, what it built and returned, the rows
\* before it and the messages it published.
DagNone ==
    [op |-> "none", cell |-> NoCell, sorted |-> <<>>, graph |-> <<>>, list |-> <<>>,
     before |-> <<>>, published |-> {}, thrown |-> NoError]

(***************************************************************************)
(* ExecutionQueueService                                                   *)
(***************************************************************************)
\* The where/orderBy/limit of processQueue's select: the rows of the project whose
\* stored executionState is 'queued', oldest queuedAt first (NULLs last), one row.
QueuedCells(rows, p) == { c \in ProjectCells(rows, p) : rows[c].executionState = "queued" }

QueuedBefore(a, b) == IF a = NoTime THEN b = NoTime ELSE (b = NoTime \/ a <= b)

\* A select without the orderBy: any queued row.
QueueHeadsAny(rows, p) == QueuedCells(rows, p)

\* The rows the select can return: a queued row that no queued row precedes.
QueueHeads(rows, p) ==
    { c \in QueuedCells(rows, p) :
        \A d \in QueuedCells(rows, p) : QueuedBefore(rows[c].queuedAt, rows[d].queuedAt) }

\* The top of `while (!this.stopSignals.get(projectId))`: either the next select is
\* issued, or the loop ends, the worker promise resolves and its finally callback
\* removes the project from both maps.
WorkerLoop(p) ==
    IF p \in DOMAIN stopSignals /\ stopSignals[p]
    THEN /\ wk' = [wk EXCEPT ![p] = WkIdle]
         /\ workers' = workers \ {p}
         /\ stopSignals' = [q \in DOMAIN stopSignals \ {p} |-> stopSignals[q]]
    ELSE /\ wk' = [wk EXCEPT ![p] = [WkIdle EXCEPT !.pc = "select"]]
         /\ UNCHANGED <<workers, stopSignals>>

\* ensureWorkerRunning(projectId), with the synchronous start of processQueue:
\* stopSignals.set(projectId, false), the loop test and the first select.
ensureWorkerRunning(p) ==
    IF p \in workers
    THEN UNCHANGED <<workers, stopSignals, wk>>
    ELSE /\ workers' = workers \cup {p}
         /\ stopSignals' = [q \in DOMAIN stopSignals \cup {p} |->
                               IF q = p THEN FALSE ELSE stopSignals[q]]
         /\ wk' = [wk EXCEPT ![p] = [WkIdle EXCEPT !.pc = "select"]]

\* A request arrives from outside: a mutation, or a call of the queue service.
Arrive == /\ clock < Started + MaxClock
          /\ clock' = clock + 1

\* A call that runs in several steps arrives: its caller sends one call at a
\* time, the next one when the last one and the runs it started are over.
ArriveCall == Arrive /\ reqs = {}

\* stopWorker(projectId)
StopWorker(p) ==
    /\ Arrive
    /\ stopSignals' = [q \in DOMAIN stopSignals \cup {p} |->
                          IF q = p THEN TRUE ELSE stopSignals[q]]
    /\ UNCHANGED <<cells, autoExecute, workers, wk, reqs, dag, collab, bus>>

\* processQueue: the select returned.
WorkerSelect(p) ==
    /\ wk[p].pc = "select"
    /\ IF QueuedCells(cells, p) = {}
       THEN wk' = [wk EXCEPT ![p].pc = "sleep"]
       ELSE \E c \in QueueHeads(cells, p) :
                wk' = [wk EXCEPT ![p] = [WkIdle EXCEPT !.pc = "execGet", !.cell = c]]
    /\ UNCHANGED <<cells, autoExecute, workers, stopSignals, reqs, clock, dag, collab, bus>>

\* processQueue: sleep(100) is over.
WorkerWake(p) ==
    /\ wk[p].pc = "sleep"
    /\ WorkerLoop(p)
    /\ UNCHANGED <<cells, autoExecute, reqs, clock, dag, collab, bus>>

\* executeCell: getById returned; a missing cell ends the call.
WorkerExecGet(p) ==
    /\ wk[p].pc = "execGet"
    /\ IF Found(cells, wk[p].cell)
       THEN /\ wk' = [wk EXCEPT ![p].pc = "markRunning"]
            /\ UNCHANGED <<workers, stopSignals>>
       ELSE WorkerLoop(p)
    /\ UNCHANGED <<cells, autoExecute, reqs, clock, dag, collab, bus>>

\* executeCell step 1: update to running (then getById and publish), fetch is sent.
WorkerMarkRunning(p) ==
    /\ wk[p].pc = "markRunning"
    /\ cells' = update(cells, wk[p].cell, [executionState |-> "running", queuedAt |-> NoTime])
    /\ wk' = [wk EXCEPT ![p].pc = IF PublishRaises(PublishFailed) THEN "catchUpdate" ELSE "fetch"]
    /\ UNCHANGED <<autoExecute, workers, stopSignals, reqs, clock, dag, collab, bus>>

\* executeCell step 2: the compute service answered with a result.
WorkerFetchAnswer(p) ==
    /\ wk[p].pc = "fetch"
    /\ \E r \in CollabAnswers : wk' = [wk EXCEPT ![p].pc = "store", ![p].res = r]
    /\ UNCHANGED <<cells, autoExecute, workers, stopSignals, reqs, clock, dag, collab, bus>>

\* executeCell step 2: fetch threw or the response was not ok: the catch block.
WorkerFetchFails(p) ==
    /\ wk[p].pc = "fetch"
    /\ collab = "flaky"
    /\ wk' = [wk EXCEPT ![p].pc = "catchUpdate"]
    /\ UNCHANGED <<cells, autoExecute, workers, stopSignals, reqs, clock, dag, collab, bus>>

ResultInput(r) ==
    [ executionState |-> IF r.success THEN "success" ELSE "error",
      outputs |-> "result", reads |-> r.reads, writes |-> r.writes ]

ErrorInput == [ executionState |-> "error", outputs |-> "errorFragment" ]

\* executeCell step 3: update with the results (then getById and publish); on
\* success queueDependents starts and asks for the project.
WorkerStore(p) ==
    /\ wk[p].pc = "store"
    /\ cells' = update(cells, wk[p].cell, ResultInput(wk[p].res))
    /\ IF PublishRaises(PublishFailed)
       THEN /\ wk' = [wk EXCEPT ![p].pc = "catchUpdate"]
            /\ UNCHANGED <<workers, stopSignals>>
       ELSE IF wk[p].res.success
       THEN /\ wk' = [wk EXCEPT ![p].pc = "qdProject"]
            /\ UNCHANGED <<workers, stopSignals>>
       ELSE WorkerLoop(p)
    /\ UNCHANGED <<autoExecute, reqs, clock, dag, collab, bus>>

\* executeCell catch block: update to error with one error fragment.
WorkerCatchUpdate(p) ==
    /\ wk[p].pc = "catchUpdate"
    /\ cells' = update(cells, wk[p].cell, ErrorInput)
    /\ WorkerLoop(p)
    /\ UNCHANGED <<autoExecute, reqs, clock, dag, collab, bus>>

\* A fan-out that would not read the flag.
FanOutGateOpen(p) == TRUE

\* queueDependents: if (!project?.autoExecute) return
FanOutGate(p) == autoExecute[p]

WorkerQdProject(p) ==
    /\ wk[p].pc = "qdProject"
    /\ IF FanOutGate(p)
       THEN /\ wk' = [wk EXCEPT ![p].pc = "qdGraph"]
            /\ UNCHANGED <<workers, stopSignals>>
       ELSE WorkerLoop(p)
    /\ UNCHANGED <<cells, autoExecute, reqs, clock, dag, collab, bus>>

\* queueDependents: graph.get(cellId) || [] of the graph just built.
WorkerQdGraph(p) ==
    /\ wk[p].pc = "qdGraph"
    /\ \E sorted \in SortedCells(cells, p) :
         LET dependents == GraphGet(buildDependencyGraph(cells, sorted), wk[p].cell)
         IN  IF Len(dependents) = 0
             THEN WorkerLoop(p)
             ELSE /\ wk' = [wk EXCEPT ![p].pc = "qdEnqGet", ![p].deps = dependents]
                  /\ UNCHANGED <<workers, stopSignals>>
    /\ UNCHANGED <<cells, autoExecute, reqs, clock, dag, collab, bus>>

\* queueDependents -> enqueue(dependentId): getById returned.  'Cell not found' is
\* thrown into the catch of queueDependents, which ends the loop over dependents.
WorkerQdEnqGet(p) ==
    /\ wk[p].pc = "qdEnqGet"
    /\ IF Found(cells, Head(wk[p].deps))
       THEN /\ wk' = [wk EXCEPT ![p].pc = "qdEnqUpdate", ![p].at = clock]
            /\ UNCHANGED <<workers, stopSignals>>
       ELSE WorkerLoop(p)
    /\ UNCHANGED <<cells, autoExecute, reqs, clock, dag, collab, bus>>

QueuedInput(at) == [ executionState |-> "queued", queuedAt |-> at ]

\* queueDependents -> enqueue(dependentId): the update to queued (then getById,
\* publish and ensureWorkerRunning, which finds this worker), then the next dependent.
WorkerQdEnqUpdate(p) ==
    /\ wk[p].pc = "qdEnqUpdate"
    /\ cells' = update(cells, Head(wk[p].deps), QueuedInput(wk[p].at))
    /\ IF Len(wk[p].deps) > 1 /\ ~PublishRaises(PublishFailed)
       THEN /\ wk' = [wk EXCEPT ![p].pc = "qdEnqGet", ![p].deps = Tail(@)]
            /\ UNCHANGED <<workers, stopSignals>>
       ELSE WorkerLoop(p)
    /\ UNCHANGED <<autoExecute, reqs, clock, dag, collab, bus>>

(***************************************************************************)
(* enqueue(cellId) called from outside the worker                          *)
(***************************************************************************)

CallEnqueue(c) ==
    /\ ArriveCall
    /\ reqs' = reqs \cup {NewReq("enqueue", c)}
    /\ UNCHANGED <<cells, autoExecute, workers, stopSignals, wk, dag, collab, bus>>

\* enqueue: getById returned; a missing cell throws 'Cell not found'.
EnqueueGet(r) ==
    /\ r.kind = "enqueue" /\ r.pc = "get"
    /\ reqs' = IF Found(cells, r.cell)
               THEN (reqs \ {r}) \cup
                    {[r EXCEPT !.pc = "update", !.proj = ProjectOf(cells, r.cell), !.at = clock]}
               ELSE reqs \ {r}
    /\ UNCHANGED <<cells, autoExecute, workers, stopSignals, wk, clock, dag, collab, bus>>

\* enqueue: cellService.update(cellId, { executionState: "queued", queuedAt: new Date() })
EnqueueUpdate(r) ==
    /\ r.kind = "enqueue" /\ r.pc = "update"
    /\ cells' = update(cells, r.cell, QueuedInput(r.at))
    /\ reqs' = (reqs \ {r}) \cup {[r EXCEPT !.pc = "publish"]}
    /\ UNCHANGED <<autoExecute, workers, stopSignals, wk, clock, dag, collab, bus>>

\* enqueue: the second getById returned, publish, ensureWorkerRunning, return.
EnqueueReturn(r) ==
    /\ r.kind = "enqueue" /\ r.pc = "publish"
    /\ IF PublishRaises(PublishFailed)
       THEN UNCHANGED <<workers, stopSignals, wk>>
       ELSE ensureWorkerRunning(r.proj)
    /\ reqs' = reqs \ {r}
    /\ UNCHANGED <<cells, autoExecute, clock, dag, collab, bus>>

(***************************************************************************)
(* resolvers: Mutation                                                     *)
(***************************************************************************)
\* toggleAutoExecute
ToggleAutoExecute(p) ==
    /\ Arrive
    /\ autoExecute' = [autoExecute EXCEPT ![p] = ~@]
    /\ UNCHANGED <<cells, workers, stopSignals, wk, reqs, dag, collab, bus>>

\* updateCell(id, input): the inputs are an edit of the code and a move
UpdateInputs == { [code |-> "c1"], [order |-> <<"1", ".", "5">>] }

UpdateCell(c, input) ==
    /\ Arrive
    /\ Found(cells, c)
    /\ cells' = update(cells, c, input)
    /\ UNCHANGED <<autoExecute, workers, stopSignals, wk, reqs, dag, collab, bus>>

\* deleteCell(id)
DeleteCell(c) ==
    /\ Arrive
    /\ Found(cells, c)
    /\ cells' = delete(cells, c)
    /\ UNCHANGED <<autoExecute, workers, stopSignals, wk, reqs, dag, collab, bus>>

CallExecuteCell(c) ==
    /\ ArriveCall
    /\ reqs' = reqs \cup {NewReq("exec", c)}
    /\ UNCHANGED <<cells, autoExecute, workers, stopSignals, wk, dag, collab, bus>>

\* executeCell: getById returned; a missing cell throws 'Cell not found'.
ExecGet(r) ==
    /\ r.kind = "exec" /\ r.pc = "get"
    /\ reqs' = IF Found(cells, r.cell)
               THEN (reqs \ {r}) \cup
                    {[r EXCEPT !.pc = "markRunning", !.proj = ProjectOf(cells, r.cell)]}
               ELSE reqs \ {r}
    /\ UNCHANGED <<cells, autoExecute, workers, stopSignals, wk, clock, dag, collab, bus>>

\* executeCell: cellService.update(id, { executionState: 'running' }), fetch is sent.
ExecMarkRunning(r) ==
    /\ r.kind = "exec" /\ r.pc = "markRunning"
    /\ cells' = update(cells, r.cell, [executionState |-> "running"])
    /\ reqs' = (reqs \ {r}) \cup {[r EXCEPT !.pc = "fetch"]}
    /\ UNCHANGED <<autoExecute, workers, stopSignals, wk, clock, dag, collab, bus>>

\* executeCell: the compute service answered.
ExecFetchAnswer(r) ==
    /\ r.kind = "exec" /\ r.pc = "fetch"
    /\ \E a \in CollabAnswers : reqs' = (reqs \ {r}) \cup {[r EXCEPT !.pc = "store", !.res = a]}
    /\ UNCHANGED <<cells, autoExecute, workers, stopSignals, wk, clock, dag, collab, bus>>

\* executeCell: fetch or response.json() threw: the mutation rejects.
ExecFetchFails(r) ==
    /\ r.kind = "exec" /\ r.pc = "fetch"
    /\ collab = "flaky"
    /\ reqs' = reqs \ {r}
    /\ UNCHANGED <<cells, autoExecute, workers, stopSignals, wk, clock, dag, collab, bus>>

\* executeCell: update with outputs, dependencies and execution state; on success
\* the project is asked for.
ExecStore(r) ==
    /\ r.kind = "exec" /\ r.pc = "store"
    /\ cells' = update(cells, r.cell, ResultInput(r.res))
    /\ reqs' = IF r.res.success THEN (reqs \ {r}) \cup {[r EXCEPT !.pc = "project"]}
               ELSE reqs \ {r}
    /\ UNCHANGED <<autoExecute, workers, stopSignals, wk, clock, dag, collab, bus>>

\* executeCell: if (project?.autoExecute)
ExecProject(r) ==
    /\ r.kind = "exec" /\ r.pc = "project"
    /\ reqs' = IF autoExecute[r.proj] THEN (reqs \ {r}) \cup {[r EXCEPT !.pc = "graph"]}
               ELSE reqs \ {r}
    /\ UNCHANGED <<cells, autoExecute, workers, stopSignals, wk, clock, dag, collab, bus>>

\* executeCell: the graph is built and resolvers.Mutation.executeCell is started for
\* every dependent, not awaited; the mutation returns.
ExecGraph(r) ==
    /\ r.kind = "exec" /\ r.pc = "graph"
    /\ \E sorted \in SortedCells(cells, r.proj) :
         LET dependents == GraphGet(buildDependencyGraph(cells, sorted), r.cell)
         IN  reqs' = (reqs \ {r}) \cup { NewReq("exec", d) : d \in SeqRange(dependents) }
    /\ UNCHANGED <<cells, autoExecute, workers, stopSignals, wk, clock, dag, collab, bus>>

CallMarkStale(c) ==
    /\ ArriveCall
    /\ reqs' = reqs \cup {NewReq("stale", c)}
    /\ UNCHANGED <<cells, autoExecute, workers, stopSignals, wk, dag, collab, bus>>

\* markCellDependentsStale: getById returned; a missing cell throws 'Cell not found'.
StaleGet(r) ==
    /\ r.kind = "stale" /\ r.pc = "get"
    /\ reqs' = IF Found(cells, r.cell)
               THEN (reqs \ {r}) \cup
                    {[r EXCEPT !.pc = "closure", !.proj = ProjectOf(cells, r.cell)]}
               ELSE reqs \ {r}
    /\ UNCHANGED <<cells, autoExecute, workers, stopSignals, wk, clock, dag, collab, bus>>

\* markCellDependentsStale: dagService.getAllDependents; with no dependent the
\* mutation returns, else markDependentsAsStale starts with its own getAllDependents.
StaleClosure(r) ==
    /\ r.kind = "stale" /\ r.pc = "closure"
    /\ \E sorted \in SortedCells(cells, r.proj) :
         LET dependents == getAllDependents(buildDependencyGraph(cells, sorted), r.cell)
         IN  reqs' = IF Len(dependents) > 0
                     THEN (reqs \ {r}) \cup {[r EXCEPT !.pc = "mark", !.deps = dependents]}
                     ELSE reqs \ {r}
    /\ UNCHANGED <<cells, autoExecute, workers, stopSignals, wk, clock, dag, collab, bus>>

\* markDependentsAsStale: its getAllDependents returned; the updates are sent.
StaleMark(r) ==
    /\ r.kind = "stale" /\ r.pc = "mark"
    /\ \E sorted \in SortedCells(cells, r.proj) :
         LET dependents == getAllDependents(buildDependencyGraph(cells, sorted), r.cell)
         IN  reqs' = IF Len(dependents) > 0
                     THEN (reqs \ {r}) \cup {[r EXCEPT !.pc = "write", !.deps = dependents]}
                     ELSE reqs \ {r}
    /\ UNCHANGED <<cells, autoExecute, workers, stopSignals, wk, clock, dag, collab, bus>>

\* markDependentsAsStale: await Promise.all(updates); the mutation returns.
StaleWrite(r) ==
    /\ r.kind = "stale" /\ r.pc = "write"
    /\ cells' = SetStale(cells, r.deps)
    /\ reqs' = reqs \ {r}
    /\ UNCHANGED <<autoExecute, workers, stopSignals, wk, clock, dag, collab, bus>>

(***************************************************************************)
(* The notebooks the service starts on.  The rows are those of a stored     *)
(* notebook: reads and writes as the dependency analyzer reported them,    *)
(* cells that wait in the queue with their queuedAt, the others idle.      *)
(***************************************************************************)
OrderOf(i) == <<DigitChars[i + 1]>>

\* A(writes x) -> B(reads x, writes y) -> C(reads y)
Chain == << [reads |-> {}, writes |-> {"x"}], [reads |-> {"x"}, writes |-> {"y"}],
            [reads |-> {"y"}, writes |-> {}] >>
\* A(writes x), B(reads x), C(reads x)
Fan == << [reads |-> {}, writes |-> {"x"}], [reads |-> {"x"}, writes |-> {}],
          [reads |-> {"x"}, writes |-> {}] >>

Templates == { Chain, Fan }

\* The cells that wait in the queue when the service starts, oldest first.
InitQueues == { <<>>, <<1>>, <<2>>, <<1, 2>>, <<2, 1>>, <<3, 2>> }

QueuePos(q, c) == CHOOSE k \in 1..Len(q) : q[k] = c

InitRows(t, q) ==
    [ i \in DOMAIN t |->
        IF i \in SeqRange(q)
        THEN Row("p1", "c0", OrderOf(i), t[i].reads, t[i].writes, "queued",
                 QueuePos(q, i), NULL)
        ELSE Row("p1", "c0", OrderOf(i), t[i].reads, t[i].writes, "idle", NoTime, NULL) ]

Init ==
    /\ \E t \in Templates : cells \in { InitRows(t, q) : q \in InitQueues }
    /\ autoExecute = [p \in {"p1"} |-> TRUE]
    /\ workers = {}
    /\ stopSignals = <<>>
    /\ wk = [p \in {"p1"} |-> WkIdle]
    /\ reqs = {}
    /\ clock = Started
    /\ dag = DagNone
    /\ collab = "flaky"
    /\ bus = "up"

Next ==
    \/ \E p \in Projects : StopWorker(p)
    \/ \E p \in Projects : WorkerSelect(p)
    \/ \E p \in Projects : WorkerWake(p)
    \/ \E p \in Projects : WorkerExecGet(p)
    \/ \E p \in Projects : WorkerMarkRunning(p)
    \/ \E p \in Projects : WorkerFetchAnswer(p)
    \/ \E p \in Projects : WorkerFetchFails(p)
    \/ \E p \in Projects : WorkerStore(p)
    \/ \E p \in Projects : WorkerCatchUpdate(p)
    \/ \E p \in Projects : WorkerQdProject(p)
    \/ \E p \in Projects : WorkerQdGraph(p)
    \/ \E p \in Projects : WorkerQdEnqGet(p)
    \/ \E p \in Projects : WorkerQdEnqUpdate(p)
    \/ \E c \in CellIds : CallEnqueue(c)
    \/ \E r \in reqs : EnqueueGet(r)
    \/ \E r \in reqs : EnqueueUpdate(r)
    \/ \E r \in reqs : EnqueueReturn(r)
    \/ \E p \in Projects : ToggleAutoExecute(p)
    \/ \E c \in CellIds, input \in UpdateInputs : UpdateCell(c, input)
    \/ \E c \in CellIds : DeleteCell(c)
    \/ \E c \in CellIds : CallExecuteCell(c)
    \/ \E r \in reqs : ExecGet(r)
    \/ \E r \in reqs : ExecMarkRunning(r)
    \/ \E r \in reqs : ExecFetchAnswer(r)
    \/ \E r \in reqs : ExecFetchFails(r)
    \/ \E r \in reqs : ExecStore(r)
    \/ \E r \in reqs : ExecProject(r)
    \/ \E r \in reqs : ExecGraph(r)
    \/ \E c \in CellIds : CallMarkStale(c)
    \/ \E r \in reqs : StaleGet(r)
    \/ \E r \in reqs : StaleClosure(r)
    \/ \E r \in reqs : StaleMark(r)
    \/ \E r \in reqs : StaleWrite(r)

Spec == Init /\ [][Next]_vars

(***************************************************************************)
(* Properties of the queue service and the mutations (specification Spec)  *)
(***************************************************************************)
\* A call of enqueue returns: its request leaves the calls in flight.
EnqueueReturns(r) == r.kind = "enqueue" /\ r.pc = "publish" /\ r \notin reqs'

\* C1: when enqueue(c) returns for an existing cell c while no worker of the
\* notebook is running, the stored executionState of c is queued and the stored
\* queuedAt is the time the call read.
EnqueueStoresQueued ==
    [][ \A r \in reqs :
          (EnqueueReturns(r) /\ r.proj \notin workers /\ Found(cells', r.cell))
          => /\ cells'[r.cell].executionState = "queued"
             /\ cells'[r.cell].queuedAt = r.at ]_vars

RunningCells(p) == { c \in ProjectCells(cells, p) : cells[c].executionState = "running" }

Dequeues(p) == wk[p].pc = "select" /\ wk'[p].pc = "execGet"

FanOutEnqueued(p) == wk[p].pc = "qdEnqUpdate" /\ wk'[p] # wk[p]

GateClosedNoFanOut ==
    [][ \A p \in Projects :
          ~autoExecute[p]
          => /\ (wk[p].pc = "qdProject" /\ wk'[p] # wk[p])
                => /\ wk'[p].pc \in {"select", "none"}
                   /\ cells' = cells
                   /\ reqs' = reqs
             /\ \A r \in reqs :
                  (r.kind = "exec" /\ r.pc = "project" /\ r.proj = p /\ r \notin reqs')
                  => /\ reqs' = reqs \ {r}
                     /\ cells' = cells ]_vars

\* A run that has dependents succeeded and its fan-out finds the flag off.
GateClosedWithDependents ==
    \E p \in Projects :
        /\ ~autoExecute[p]
        /\ wk[p].pc = "qdProject"
        /\ \E sorted \in SortedCells(cells, p) :
             Len(GraphGet(buildDependencyGraph(cells, sorted), wk[p].cell)) > 0

(***************************************************************************)
(* SpecQueue: the queue service alone, on a notebook nobody edits, with a   *)
(* compute service that either always succeeds or may fail.  Node's event  *)
(* loop runs every continuation that is ready: the worker loop and the     *)
(* calls of enqueue are weakly fair.                                       *)
(***************************************************************************)
InitQueue ==
    /\ \E t \in Templates : cells \in { InitRows(t, q) : q \in InitQueues }
    /\ autoExecute = [p \in {"p1"} |-> TRUE]
    /\ workers = {}
    /\ stopSignals = <<>>
    /\ wk = [p \in {"p1"} |-> WkIdle]
    /\ reqs = {}
    /\ clock = Started
    /\ dag = DagNone
    /\ collab \in {"ok", "flaky"}
    /\ bus = "up"

WorkerStep ==
    \E p \in Projects :
        \/ WorkerSelect(p)
        \/ WorkerWake(p)
        \/ WorkerExecGet(p)
        \/ WorkerMarkRunning(p)
        \/ WorkerFetchAnswer(p)
        \/ WorkerFetchFails(p)
        \/ WorkerStore(p)
        \/ WorkerCatchUpdate(p)
        \/ WorkerQdProject(p)
        \/ WorkerQdGraph(p)
        \/ WorkerQdEnqGet(p)
        \/ WorkerQdEnqUpdate(p)

EnqueueStep == \E r \in reqs : EnqueueGet(r) \/ EnqueueUpdate(r) \/ EnqueueReturn(r)

NextQueue ==
    \/ \E c \in CellIds : CallEnqueue(c)
    \/ \E r \in reqs : EnqueueGet(r)
    \/ \E r \in reqs : EnqueueUpdate(r)
    \/ \E r \in reqs : EnqueueReturn(r)
    \/ \E p \in Projects : WorkerSelect(p)
    \/ \E p \in Projects : WorkerWake(p)
    \/ \E p \in Projects : WorkerExecGet(p)
    \/ \E p \in Projects : WorkerMarkRunning(p)
    \/ \E p \in Projects : WorkerFetchAnswer(p)
    \/ \E p \in Projects : WorkerFetchFails(p)
    \/ \E p \in Projects : WorkerStore(p)
    \/ \E p \in Projects : WorkerCatchUpdate(p)
    \/ \E p \in Projects : WorkerQdProject(p)
    \/ \E p \in Projects : WorkerQdGraph(p)
    \/ \E p \in Projects : WorkerQdEnqGet(p)
    \/ \E p \in Projects : WorkerQdEnqUpdate(p)

SpecQueue == InitQueue /\ [][NextQueue]_vars /\ WF_vars(WorkerStep) /\ WF_vars(EnqueueStep)

\* The run of cell c by the worker of its notebook ends in error: the failure
\* answer or the caught exception is about to be stored.
RunEndsInError(c) ==
    \E p \in Projects :
        /\ wk[p].cell = c
        /\ \/ wk[p].pc = "catchUpdate"
           \/ wk[p].pc = "store" /\ ~wk[p].res.success

\* Neither cell is reachable from the other in the dependency graph.
SiblingBranches(c, d) ==
    /\ c # d /\ Found(cells, c) /\ Found(cells, d)
    /\ cells[c].projectId = cells[d].projectId
    /\ \A sorted \in SortedCells(cells, cells[c].projectId) :
         LET graph == buildDependencyGraph(cells, sorted)
         IN  /\ d \notin SeqRange(getAllDependents(graph, c))
             /\ c \notin SeqRange(getAllDependents(graph, d))

WorkerRuns(d) == \E p \in Projects : wk[p].cell = d /\ wk[p].pc = "fetch"

EnqueuedAOnIdleChain ==
    /\ collab = "ok"
    /\ DOMAIN cells = DOMAIN Chain
    /\ \A i \in DOMAIN cells :
         /\ cells[i].reads = Chain[i].reads /\ cells[i].writes = Chain[i].writes
         /\ cells[i].executionState = "idle"
         /\ autoExecute[cells[i].projectId]
    /\ \E r \in reqs : r.kind = "enqueue" /\ r.cell = 1

AllSuccess == \A i \in DOMAIN cells : cells[i].executionState = "success"

\* C10: enqueueing A on the idle chain A -> B -> C leads to a state where A, B and
\* C are all success (so none is stale or queued).
ChainRunsToSuccess == EnqueuedAOnIdleChain ~> AllSuccess

(***************************************************************************)
(* SpecDag: the functions of dagService applied to stored notebooks         *)
(***************************************************************************)
DepFamily ==
    { [reads |-> {}, writes |-> {"x"}], [reads |-> {"x"}, writes |-> {"x"}],
      [reads |-> {"x"}, writes |-> {"y"}], [reads |-> {"y"}, writes |-> {}] }

\* The order keys from the smallest to the greatest parsed order.
OrderSeq == << <<"1">>, <<"1", ".", "5">>, <<"2">>, <<"3">> >>

\* Cell ids are interchangeable, so the rows are numbered by their order key:
\* the arrival order of rows with equal keys is chosen by SortedCells.
OrderChoices == { k \in [CellIds -> 1..Len(OrderSeq)] :
                    \A i, j \in CellIds : i < j => k[i] <= k[j] }

DagNotebooks ==
    { [ i \in CellIds |-> Row("p1", "c0", OrderSeq[k[i]], d[i].reads, d[i].writes,
                              "success", NoTime, NULL) ] :
        k \in OrderChoices, d \in [CellIds -> DepFamily] }

InitDag ==
    /\ cells \in DagNotebooks
    /\ autoExecute = [p \in {"p1"} |-> TRUE]
    /\ workers = {}
    /\ stopSignals = <<>>
    /\ wk = [p \in {"p1"} |-> WkIdle]
    /\ reqs = {}
    /\ clock = 0
    /\ dag = DagNone
    /\ collab = "flaky"
    /\ bus = "up"

\* dagService.buildDependencyGraph(projectId)
DagBuild(p) ==
    /\ dag.op = "none"
    /\ \E sorted \in SortedCells(cells, p) :
         dag' = [op |-> "build", cell |-> NoCell, sorted |-> sorted,
                 graph |-> buildDependencyGraph(cells, sorted), list |-> <<>>, before |-> cells,
                 published |-> {}, thrown |-> NoError]
    /\ UNCHANGED <<cells, autoExecute, workers, stopSignals, wk, reqs, clock, collab, bus>>

\* dagService.markDependentsAsStale(cellId, projectId): the updates to stale and the
\* count returned; the function calls neither publishCellUpdate nor pubsub.
markDependentsAsStale(c, p) ==
    /\ dag.op = "none"
    /\ \E graph \in { buildDependencyGraph(cells, sorted) : sorted \in SortedCells(cells, p) } :
         LET dependents == getAllDependents(graph, c)
         IN  /\ cells' = IF Len(dependents) = 0 THEN cells ELSE SetStale(cells, dependents)
             /\ dag' = [op |-> "stale", cell |-> c, sorted |-> <<>>, graph |-> graph,
                        list |-> dependents, before |-> cells, published |-> {}, thrown |-> NoError]
    /\ UNCHANGED <<autoExecute, workers, stopSignals, wk, reqs, clock, collab, bus>>

NextDag ==
    \/ \E p \in Projects : DagBuild(p)
    \/ \E c \in CellIds : markDependentsAsStale(c, cells[c].projectId)

SpecDag == InitDag /\ [][NextDag]_vars

(***************************************************************************)
(* Properties of dagService (specification SpecDag)                        *)
(***************************************************************************)
\* The position of an order key among the keys: "1" < "1.5" < "2" < "3".
KeyIndex(o) == CHOOSE k \in 1..Len(OrderSeq) : OrderSeq[k] = o

OrderBelow(rows, a, b) == KeyIndex(rows[a].order) < KeyIndex(rows[b].order)

DistinctOrders(rows) ==
    \A a, b \in DOMAIN rows : a # b => rows[a].order # rows[b].order

\* W is the cell with the greatest order below R's among the cells that write v.
NearestWriter(rows, W, R, v) ==
    /\ v \in rows[W].writes
    /\ OrderBelow(rows, W, R)
    /\ \A U \in DOMAIN rows :
         (v \in rows[U].writes /\ OrderBelow(rows, U, R)) => ~OrderBelow(rows, W, U)

HasEdge(graph, W, R) == R \in SeqRange(GraphGet(graph, W))

\* C4: on a notebook whose cells have distinct orders, the graph lists R among the
\* dependents of W if and only if, for some variable R reads, W is the nearest
\* writer of that variable below R.
ShadowingByOrder ==
    (dag.op = "build" /\ DistinctOrders(dag.before))
    => \A W, R \in DOMAIN dag.before :
         HasEdge(dag.graph, W, R)
         <=> \E v \in dag.before[R].reads : NearestWriter(dag.before, W, R, v)

\* C5: every edge W -> R of a graph buildDependencyGraph returns has the order of W
\* strictly below the order of R, and no cell is a dependent of itself; stated on
\* the notebooks whose cells have distinct orders.
NoForwardEdge ==
    (dag.op = "build" /\ DistinctOrders(dag.before))
    => \A W, R \in DOMAIN dag.before :
         HasEdge(dag.graph, W, R) => (W # R /\ OrderBelow(dag.before, W, R))

\* The cells reachable from the cells of S by zero or more edges of the graph.
RECURSIVE ReachFrom(_, _)
ReachFrom(graph, S) ==
    LET T == S \cup UNION { SeqRange(GraphGet(graph, s)) : s \in S }
    IN  IF T = S THEN S ELSE ReachFrom(graph, T)

\* The cells reachable from c by one or more edges.
Closure(graph, c) == ReachFrom(graph, SeqRange(GraphGet(graph, c)))

\* C6: markDependentsAsStale(c) stores stale for exactly the cells reachable from c
\* by one or more edges of the graph it built, and leaves every field of c and of
\* every cell outside the closure as it was.
StaleExactlyClosure ==
    dag.op = "stale"
    => /\ DOMAIN cells = DOMAIN dag.before
       /\ cells[dag.cell] = dag.before[dag.cell]
       /\ \A id \in DOMAIN cells :
            cells[id] = IF id \in Closure(dag.graph, dag.cell)
                        THEN [dag.before[id] EXCEPT !.executionState = "stale"]
                        ELSE dag.before[id]

\* markDependentsAsStale ran on a cell whose closure holds a cell that is not one of
\* its direct dependents.
StaleReachedSecondLevel ==
    /\ dag.op = "stale"
    /\ \E id \in DOMAIN cells :
         /\ id \in Closure(dag.graph, dag.cell)
         /\ ~HasEdge(dag.graph, dag.cell, id)
         /\ cells[id].executionState = "stale"

(***************************************************************************)
(* SpecGraph: the cycle detector and the topological sorter of dagService, *)
(* applied to adjacency maps.  The keys of the map are kept in insertion   *)
(* order, the dependents of a key in ascending order, as                   *)
(* buildDependencyGraph pushes them.                                       *)
(***************************************************************************)
RECURSIVE SortedSeq(_)
SortedSeq(S) ==
    IF S = {} THEN <<>>
    ELSE LET m == CHOOSE x \in S : \A y \in S : x <= y
         IN  <<m>> \o SortedSeq(S \ {m})

\* graph.keys()
GraphKeys == SortedSeq(CellIds)

AdjacencyMaps == { [ id \in CellIds |-> SortedSeq(d[id]) ] : d \in [CellIds -> SUBSET CellIds] }

\* A cycle search that would start from the first key only.
CycleRootsFirst(keys) == <<keys[1]>>

\* for (const cellId of graph.keys())
CycleRoots(keys) == keys

\* detectCycles: dfs(cellId) with its visited set, recursion stack and cycleNodes;
\* `found` is the value dfs returns.
RECURSIVE CycleDfs(_, _, _)
RECURSIVE CycleLoop(_, _, _, _, _)
CycleDfs(graph, cellId, st) ==
    CycleLoop(graph, cellId, GraphGet(graph, cellId), 1,
              [st EXCEPT !.visited = @ \cup {cellId}, !.stack = @ \cup {cellId}])

CycleLoop(graph, cellId, dependents, k, st) ==
    IF k > Len(dependents)
    THEN [st EXCEPT !.stack = @ \ {cellId}, !.found = FALSE]
    ELSE IF dependents[k] \notin st.visited
    THEN LET r == CycleDfs(graph, dependents[k], st)
         IN  IF r.found THEN [r EXCEPT !.cycle = Append(@, cellId)]
             ELSE CycleLoop(graph, cellId, dependents, k + 1, r)
    ELSE IF dependents[k] \in st.stack
    THEN [st EXCEPT !.cycle = @ \o <<cellId, dependents[k]>>, !.found = TRUE]
    ELSE CycleLoop(graph, cellId, dependents, k + 1, st)

RECURSIVE DetectFrom(_, _, _, _)
DetectFrom(graph, roots, k, st) ==
    IF k > Len(roots) THEN <<>>
    ELSE IF roots[k] \in st.visited THEN DetectFrom(graph, roots, k + 1, st)
    ELSE LET r == CycleDfs(graph, roots[k], st)
         IN  IF r.found THEN r.cycle ELSE DetectFrom(graph, roots, k + 1, r)

\* dagService.detectCycles on the graph it built: cycleNodes, or [].
detectCycles(graph, keys) ==
    DetectFrom(graph, CycleRoots(keys), 1,
               [visited |-> {}, stack |-> {}, cycle |-> <<>>, found |-> FALSE])

\* inDegree after the two loops over graph.keys() and graph.values().
InDegree(graph, keys) ==
    [ id \in SeqRange(keys) |->
        Cardinality({ <<w, k>> \in SeqRange(keys) \X (1..Len(keys)) :
                        k <= Len(graph[w]) /\ graph[w][k] = id }) ]

\* A sorter that would take every cell as ready.
IsReadyAlways(degree) == TRUE

\* if (degree === 0) / if (newDegree === 0)
IsReady(degree) == degree = 0

RECURSIVE InitialQueue(_, _, _)
InitialQueue(inDegree, keys, k) ==
    IF k > Len(keys) THEN <<>>
    ELSE (IF IsReady(inDegree[keys[k]]) THEN <<keys[k]>> ELSE <<>>)
         \o InitialQueue(inDegree, keys, k + 1)

\* for (const dependentId of dependents): decrement, push when it reaches zero.
RECURSIVE KahnRelease(_, _, _)
KahnRelease(dependents, k, st) ==
    IF k > Len(dependents) THEN st
    ELSE LET d == dependents[k]
             newDegree == st.inDegree[d] - 1
         IN  KahnRelease(dependents, k + 1,
                 [st EXCEPT !.inDegree[d] = newDegree,
                            !.queue = IF IsReady(newDegree) THEN Append(@, d) ELSE @])

\* while (queue.length > 0): the loop stops as well when the result has outgrown
\* the graph (then its length differs from graph.size whatever follows).
RECURSIVE KahnLoop(_, _, _)
KahnLoop(graph, size, st) ==
    IF st.queue = <<>> \/ Len(st.result) > size THEN st.result
    ELSE LET cellId == Head(st.queue)
         IN  KahnLoop(graph, size,
                 KahnRelease(GraphGet(graph, cellId), 1,
                     [st EXCEPT !.queue = Tail(@), !.result = Append(@, cellId)]))

Kahn(graph, keys) ==
    KahnLoop(graph, Len(keys),
             [inDegree |-> InDegree(graph, keys),
              queue |-> InitialQueue(InDegree(graph, keys), keys, 1),
              result |-> <<>>])

InitGraph ==
    /\ cells = <<>>
    /\ autoExecute = [p \in {"p1"} |-> TRUE]
    /\ workers = {}
    /\ stopSignals = <<>>
    /\ wk = [p \in {"p1"} |-> WkIdle]
    /\ reqs = {}
    /\ clock = 0
    /\ collab = "ok"
    /\ bus = "up"
    /\ \E graph \in AdjacencyMaps :
         dag = [op |-> "input", cell |-> NoCell, sorted |-> GraphKeys, graph |-> graph,
                list |-> <<>>, before |-> <<>>, published |-> {}, thrown |-> NoError]

\* dagService.detectCycles
DagDetectCycles ==
    /\ dag.op = "input"
    /\ dag' = [dag EXCEPT !.op = "cycles", !.list = detectCycles(dag.graph, dag.sorted)]
    /\ UNCHANGED <<cells, autoExecute, workers, stopSignals, wk, reqs, clock, collab, bus>>

\* dagService.getExecutionOrder: the list, or the throw of 'circular dependency
\* detected' when result.length !== graph.size.
getExecutionOrder ==
    /\ dag.op = "input"
    /\ LET result == Kahn(dag.graph, dag.sorted)
       IN  dag' = IF Len(result) # Len(dag.sorted)
                  THEN [dag EXCEPT !.op = "orderThrows", !.thrown = CircularDependencyError]
                  ELSE [dag EXCEPT !.op = "order", !.list = result]
    /\ UNCHANGED <<cells, autoExecute, workers, stopSignals, wk, reqs, clock, collab, bus>>

NextGraph ==
    \/ DagDetectCycles
    \/ getExecutionOrder

SpecGraph == InitGraph /\ [][NextGraph]_vars

(***************************************************************************)
(* Properties of the sorter and the cycle detector (specification SpecGraph) *)
(***************************************************************************)
HasCycle(graph) == \E n \in DOMAIN graph : n \in Closure(graph, n)

Position(list, id) == CHOOSE k \in 1..Len(list) : list[k] = id

IsOrderingOf(list, keys) ==
    /\ Len(list) = Len(keys)
    /\ SeqRange(list) = SeqRange(keys)

\* C11: on every acyclic graph getExecutionOrder returns a list that holds every
\* cell once and places every cell after all the cells it depends on, directly or
\* transitively.
OrderRespectsDependencies ==
    (dag.op \in {"order", "orderThrows"} /\ ~HasCycle(dag.graph))
    => /\ dag.op = "order"
       /\ IsOrderingOf(dag.list, dag.sorted)
       /\ \A W, R \in DOMAIN dag.graph :
            R \in Closure(dag.graph, W) => Position(dag.list, W) < Position(dag.list, R)

\* The sorter returned the order of a chain whose keys were inserted against it.
OrderedAgainstKeys ==
    /\ dag.op = "order"
    /\ \E W, M, R \in DOMAIN dag.graph :
         /\ HasEdge(dag.graph, W, M) /\ HasEdge(dag.graph, M, R)
         /\ R < M /\ M < W
         /\ Position(dag.list, W) < Position(dag.list, M)
         /\ Position(dag.list, M) < Position(dag.list, R)

\* C12: on every graph that holds a cycle, detectCycles returns a non-empty list and
\* getExecutionOrder throws, returning no list at all.
CyclesAreReported ==
    HasCycle(dag.graph)
    => /\ dag.op = "cycles" => Len(dag.list) > 0
       /\ dag.op # "order"
       /\ dag.op = "orderThrows" => dag.list = <<>>

\* detectCycles reported a cycle that cannot be reached from the first key.
CycleFoundOffFirstKey ==
    /\ dag.op = "cycles"
    /\ Len(dag.list) > 0
    /\ \A n \in Closure(dag.graph, dag.sorted[1]) \cup {dag.sorted[1]} :
         n \notin Closure(dag.graph, n)

(***************************************************************************)
(* Properties of the life cycle of a cell (specifications Spec, SpecQueue) *)
(***************************************************************************)
\* The worker of a notebook sends cell c to the compute service in this step.
WorkerStartsRun(c) ==
    \E p \in Projects : wk[p].pc = "markRunning" /\ wk'[p].pc = "fetch" /\ wk[p].cell = c

\* An executeCell mutation sends cell c to the compute service in this step.
MutationStartsRun(c) ==
    \E r \in reqs : r.kind = "exec" /\ r.pc = "markRunning" /\ r.cell = c /\ r \notin reqs'

\* C13: a cell is moved to running and sent to the compute service only by the
\* worker of its notebook, never inside the mutation that asked for the run, and
\* only while it is stored as queued.
RunsOnlyFromQueue ==
    [][ \A c \in DOMAIN cells :
          (WorkerStartsRun(c) \/ MutationStartsRun(c))
          => /\ WorkerStartsRun(c)
             /\ cells[c].executionState = "queued" ]_vars

\* The write that completes a run of cell c lands in this step: the worker's update
\* with the result, its update in the catch block, or the mutation's update.
CompletingWrite(c) ==
    \/ \E p \in Projects :
         wk[p].pc \in {"store", "catchUpdate"} /\ wk[p].cell = c /\ wk'[p] # wk[p]
    \/ \E r \in reqs : r.kind = "exec" /\ r.pc = "store" /\ r.cell = c /\ r \notin reqs'

Completed == {"success", "error"}

EnqueueWrites(c) ==
    \/ \E r \in reqs : r.kind = "enqueue" /\ r.pc = "update" /\ r.cell = c /\ r \notin reqs'
    \/ \E p \in Projects :
         wk[p].pc = "qdEnqUpdate" /\ Head(wk[p].deps) = c /\ wk'[p] # wk[p]

InFlight(c) ==
    \E p \in Projects :
        wk[p].cell = c /\ wk[p].pc \in {"execGet", "markRunning", "fetch", "store", "catchUpdate"}

stopWorker(p) ==
    /\ stopSignals' = [q \in DOMAIN stopSignals \cup {p} |->
                          IF q = p THEN TRUE ELSE stopSignals[q]]
    /\ UNCHANGED <<cells, autoExecute, workers, wk, reqs, clock, dag, collab, bus>>

NextRegistry ==
    \/ NextQueue
    \/ \E p \in Projects : stopWorker(p)

SpecRegistry == InitQueue /\ [][NextRegistry]_vars

\* C17: when a call of enqueue returns, the notebook of its cell has a registered
\* worker loop whose stop signal is not set, so that the loop goes on to poll.
EnqueueLeavesActiveWorker ==
    [][ \A r \in reqs :
          EnqueueReturns(r)
          => /\ r.proj \in workers'
             /\ wk'[r.proj].pc # "none"
             /\ r.proj \in DOMAIN stopSignals' /\ ~stopSignals'[r.proj] ]_vars

InitSilent ==
    /\ \E t \in Templates : cells \in { InitRows(t, q) : q \in InitQueues }
    /\ autoExecute = [p \in {"p1"} |-> TRUE]
    /\ workers = {}
    /\ stopSignals = <<>>
    /\ wk = [p \in {"p1"} |-> WkIdle]
    /\ reqs = {}
    /\ clock = Started
    /\ dag = DagNone
    /\ collab \in {"flaky", "silent"}
    /\ bus = "up"

SpecSilent == InitSilent /\ [][NextQueue]_vars /\ WF_vars(WorkerStep) /\ WF_vars(EnqueueStep)

publishCellUpdate(projectId, cell) ==
    [topic |-> <<"CELL_UPDATED", projectId>>, payload |-> [cellUpdated |-> cell]]

\* C20: every cell whose stored executionState a call of the staleness propagator
\* has changed is published by that call, with its current record, on the topic of
\* its own notebook, and nothing is published on any other topic.
StaleMarksArePublished ==
    dag.op = "stale"
    => /\ \A c \in DOMAIN cells \cap DOMAIN dag.before :
            cells[c].executionState # dag.before[c].executionState
            => publishCellUpdate(cells[c].projectId, cells[c]) \in dag.published
       /\ \A m \in dag.published :
            \E c \in DOMAIN cells : m = publishCellUpdate(cells[c].projectId, cells[c])

(***************************************************************************)
(* SpecBus: the queue service with a notification bus that is up or down.  *)
(***************************************************************************)
InitBus ==
    /\ \E t \in Templates : cells \in { InitRows(t, q) : q \in InitQueues }
    /\ autoExecute = [p \in {"p1"} |-> TRUE]
    /\ workers = {}
    /\ stopSignals = <<>>
    /\ wk = [p \in {"p1"} |-> WkIdle]
    /\ reqs = {}
    /\ clock = Started
    /\ dag = DagNone
    /\ collab = "flaky"
    /\ bus \in {"up", "down"}

SpecBus == InitBus /\ [][NextQueue]_vars

MissingCellCall(r) ==
    /\ r.kind \in {"enqueue", "exec", "stale"}
    /\ r.pc = "get"
    /\ r.cell \notin DOMAIN cells
    /\ r \notin reqs'

\* C22: enqueue, executeCell and markCellDependentsStale called with an id that
\* matches no cell end at their getById with 'Cell not found': the call is over, no
\* row changes, no worker is started or stopped and no further step of the call
\* (update, publish, fetch) is left to run.
MissingCellHasNoEffect ==
    [][ \A r \in reqs :
          MissingCellCall(r)
          => /\ reqs' = reqs \ {r}
             /\ cells' = cells
             /\ workers' = workers /\ stopSignals' = stopSignals /\ wk' = wk ]_vars

\* A call is waiting for its getById on the id of a cell that has been deleted.
CallOnDeletedCell ==
    \E r \in reqs : r.pc = "get" /\ r.cell \notin DOMAIN cells

ForwardEdgesOnly(graph) ==
    \A W, R \in DOMAIN graph : HasEdge(graph, W, R) => W < R

\* The cells that are ready when the k-th cell of the list is emitted: not emitted
\* yet, with every cell they depend on emitted.
ReadyAt(graph, list, k) ==
    { c \in DOMAIN graph :
        /\ \A j \in 1..(k - 1) : list[j] # c
        /\ \A W \in DOMAIN graph :
             HasEdge(graph, W, c) => \E j \in 1..(k - 1) : list[j] = W }

\* C24: whenever getExecutionOrder emits a cell, no other cell that is ready at that
\* moment has a smaller order (an earlier key).
EmitsSmallestReady ==
    (dag.op = "order" /\ ForwardEdgesOnly(dag.graph))
    => \A k \in 1..Len(dag.list) :
         \A c \in ReadyAt(dag.graph, dag.list, k) : dag.list[k] <= c

IdleWorkerStops ==
    \A p \in {"p1"} :
        (p \in workers /\ QueuedCells(cells, p) = {})
        ~> (p \notin workers \/ QueuedCells(cells, p) # {})

(***************************************************************************)
(* SpecTwo: two notebooks in one service.  The cells of notebook p1 are a   *)
(* writer of x and readers of x; the one cell of notebook p2 reads x too.  *)
(***************************************************************************)
TwoQueues == { {}, {1, MaxCells}, {MaxCells} }

TwoRows(q) ==
    [ i \in CellIds |->
        Row(IF i = MaxCells THEN "p2" ELSE "p1", "c0", OrderOf(i),
            IF i = 1 THEN {} ELSE {"x"}, IF i = 1 THEN {"x"} ELSE {},
            IF i \in q THEN "queued" ELSE "idle", IF i \in q THEN i ELSE NoTime, NULL) ]

InitTwo ==
    /\ cells \in { TwoRows(q) : q \in TwoQueues }
    /\ autoExecute = [p \in {"p1", "p2"} |-> TRUE]
    /\ workers = {}
    /\ stopSignals = <<>>
    /\ wk = [p \in {"p1", "p2"} |-> WkIdle]
    /\ reqs = {}
    /\ clock = Started
    /\ dag = DagNone
    /\ collab = "flaky"
    /\ bus = "up"

SpecTwo == InitTwo /\ [][Next]_vars

\* What notebook q owns: its rows, its worker loop and its registry entries.
OwnedBy(q) ==
    [ rows |-> [ c \in { d \in DOMAIN cells : cells[d].projectId = q } |-> cells[c] ],
      loop |-> wk[q],
      registered |-> q \in workers,
      stop |-> IF q \in DOMAIN stopSignals THEN stopSignals[q] ELSE FALSE,
      flag |-> autoExecute[q] ]

OwnedByNext(q) ==
    [ rows |-> [ c \in { d \in DOMAIN cells' : cells'[d].projectId = q } |-> cells'[c] ],
      loop |-> wk'[q],
      registered |-> q \in workers',
      stop |-> IF q \in DOMAIN stopSignals' THEN stopSignals'[q] ELSE FALSE,
      flag |-> autoExecute'[q] ]

handleUpdateCellCode(c) ==
    /\ ArriveCall
    /\ Found(cells, c)
    /\ cells' = update(cells, c, [code |-> "c1"])
    /\ reqs' = reqs \cup {NewReq("stale", c)}
    /\ UNCHANGED <<autoExecute, workers, stopSignals, wk, dag, collab, bus>>

StaleStep == \E r \in reqs : StaleGet(r) \/ StaleClosure(r) \/ StaleMark(r) \/ StaleWrite(r)

NextEdit ==
    \/ NextQueue
    \/ \E c \in CellIds : handleUpdateCellCode(c)
    \/ \E r \in reqs : StaleGet(r)
    \/ \E r \in reqs : StaleClosure(r)
    \/ \E r \in reqs : StaleMark(r)
    \/ \E r \in reqs : StaleWrite(r)

SpecEdit == Init /\ [][NextEdit]_vars /\ WF_vars(StaleStep)

\* The code of cell c has been edited.
Edited(c) == c \in DOMAIN cells /\ cells[c].code = "c1"

\* Every cell reachable from c in the dependency graph is stored as stale.
DependentsAreStale(c) ==
    \A sorted \in SortedCells(cells, ProjectOf(cells, c)) :
        \A d \in Closure(buildDependencyGraph(cells, sorted), c) :
            cells[d].executionState = "stale"

TwiceNotebooks ==
    { [ i \in CellIds |-> Row("p1", "c0", OrderOf(i), d[i].reads, d[i].writes,
                              "success", NoTime, NULL) ] :
        d \in [CellIds -> DepFamily] }

InitTwice ==
    /\ cells \in TwiceNotebooks
    /\ autoExecute = [p \in {"p1"} |-> TRUE]
    /\ workers = {}
    /\ stopSignals = <<>>
    /\ wk = [p \in {"p1"} |-> WkIdle]
    /\ reqs = {}
    /\ clock = 0
    /\ dag = DagNone
    /\ collab = "flaky"
    /\ bus = "up"

\* dagService.markDependentsAsStale(cellId, projectId), called again with the
\* arguments of the call before.
markDependentsAsStaleAgain(c, p) ==
    /\ dag.op = "stale" /\ dag.cell = c
    /\ \E graph \in { buildDependencyGraph(cells, sorted) : sorted \in SortedCells(cells, p) } :
         LET dependents == getAllDependents(graph, c)
         IN  /\ cells' = IF Len(dependents) = 0 THEN cells ELSE SetStale(cells, dependents)
             /\ dag' = [op |-> "staleAgain", cell |-> c, sorted |-> <<>>, graph |-> graph,
                        list |-> dependents, before |-> cells, published |-> {},
                        thrown |-> NoError]
    /\ UNCHANGED <<autoExecute, workers, stopSignals, wk, reqs, clock, collab, bus>>

NextTwice ==
    \/ \E c \in CellIds : markDependentsAsStale(c, cells[c].projectId)
    \/ \E c \in CellIds : markDependentsAsStaleAgain(c, cells[c].projectId)

SpecTwice == InitTwice /\ [][NextTwice]_vars

NotebookKeys == << <<"0">>, <<"1">>, <<"1", ".", "5">>, <<"2">>, <<"3">> >>

NotebookFamily ==
    DepFamily \cup { [reads |-> {"x", "y"}, writes |-> {}], [reads |-> {}, writes |-> {}] }

Notebooks ==
    { [ i \in CellIds |-> Row("p1", "c0", NotebookKeys[i], d[i].reads, d[i].writes,
                              "success", NoTime, NULL) ] :
        d \in [CellIds -> NotebookFamily] }

InitNotebook ==
    /\ cells \in Notebooks
    /\ autoExecute = [p \in {"p1"} |-> TRUE]
    /\ workers = {}
    /\ stopSignals = <<>>
    /\ wk = [p \in {"p1"} |-> WkIdle]
    /\ reqs = {}
    /\ clock = 0
    /\ dag = DagNone
    /\ collab = "flaky"
    /\ bus = "up"

\* graph.keys(): the keys of the Map in insertion order, which is the order of
\* sortedCells (part_004:49-51).
KeysOf(graph, sorted) == SelectSeq(sorted, LAMBDA id : id \in DOMAIN graph)

\* deleteCell(id), after a build of the graph
DagDeleteCell(c) ==
    /\ dag.op = "build"
    /\ Found(cells, c)
    /\ cells' = delete(cells, c)
    /\ dag' = [dag EXCEPT !.op = "deleted", !.cell = c]
    /\ UNCHANGED <<autoExecute, workers, stopSignals, wk, reqs, clock, collab, bus>>

\* dagService.buildDependencyGraph(projectId), the next build after deleteCell
DagRebuild(p) ==
    /\ dag.op = "deleted"
    /\ \E sorted \in SortedCells(cells, p) :
         dag' = [dag EXCEPT !.op = "rebuilt", !.sorted = sorted,
                            !.graph = buildDependencyGraph(cells, sorted)]
    /\ UNCHANGED <<cells, autoExecute, workers, stopSignals, wk, reqs, clock, collab, bus>>

\* dagService.markDependentsAsStale(cellId, projectId), called after deleteCell
markDependentsAsStaleAfter(c, p) ==
    /\ dag.op = "deleted"
    /\ \E graph \in { buildDependencyGraph(cells, sorted) : sorted \in SortedCells(cells, p) } :
         LET dependents == getAllDependents(graph, c)
         IN  /\ cells' = IF Len(dependents) = 0 THEN cells ELSE SetStale(cells, dependents)
             /\ dag' = [dag EXCEPT !.op = "staleAfter", !.graph = graph, !.list = dependents]
    /\ UNCHANGED <<autoExecute, workers, stopSignals, wk, reqs, clock, collab, bus>>

\* dagService.detectCycles(projectId)
detectCyclesOf(p) ==
    /\ dag.op = "none"
    /\ \E sorted \in SortedCells(cells, p) :
         LET graph == buildDependencyGraph(cells, sorted)
         IN  dag' = [dag EXCEPT !.op = "cycles", !.sorted = sorted, !.graph = graph,
                                !.list = detectCycles(graph, KeysOf(graph, sorted)),
                                !.before = cells]
    /\ UNCHANGED <<cells, autoExecute, workers, stopSignals, wk, reqs, clock, collab, bus>>

\* dagService.getExecutionOrder(projectId)
getExecutionOrderOf(p) ==
    /\ dag.op = "none"
    /\ \E sorted \in SortedCells(cells, p) :
         LET graph == buildDependencyGraph(cells, sorted)
             result == Kahn(graph, KeysOf(graph, sorted))
         IN  dag' = IF Len(result) # Cardinality(DOMAIN graph)
                    THEN [dag EXCEPT !.op = "orderThrows", !.sorted = sorted, !.graph = graph,
                                     !.before = cells, !.thrown = CircularDependencyError]
                    ELSE [dag EXCEPT !.op = "order", !.sorted = sorted, !.graph = graph,
                                     !.before = cells, !.list = result]
    /\ UNCHANGED <<cells, autoExecute, workers, stopSignals, wk, reqs, clock, collab, bus>>

NextNotebook ==
    \/ \E p \in Projects : DagBuild(p)
    \/ \E c \in CellIds : DagDeleteCell(c)
    \/ \E p \in Projects : DagRebuild(p)
    \/ \E c \in CellIds : markDependentsAsStaleAfter(c, ProjectOf(cells, c))
    \/ \E p \in Projects : detectCyclesOf(p)
    \/ \E p \in Projects : getExecutionOrderOf(p)
    \/ \E c \in CellIds : markDependentsAsStale(c, ProjectOf(cells, c))

SpecNotebook == InitNotebook /\ [][NextNotebook]_vars

\* The position of an order key among the keys of the notebook.
KeyRank(o) == CHOOSE k \in 1..Len(NotebookKeys) : NotebookKeys[k] = o

KeyBelow(rows, a, b) == KeyRank(rows[a].order) < KeyRank(rows[b].order)

\* W is the closest remaining writer of v that precedes R.
ClosestWriter(rows, W, R, v) ==
    /\ v \in rows[W].writes
    /\ KeyBelow(rows, W, R)
    /\ \A U \in DOMAIN rows : (v \in rows[U].writes /\ KeyBelow(rows, U, R)) => ~KeyBelow(rows, W, U)

\* C31: the next graph built after deleteCell(c) holds c neither as a key nor in a
\* dependents list, and every cell that depended on c depends in it, for each
\* variable it reads, on the closest remaining writer of that variable with an order
\* below its own; a staleness propagation after the deletion neither lists c nor
\* writes a row for it.
DeletionRewiresDependents ==
    [][ /\ (dag.op = "deleted" /\ dag'.op = "rebuilt")
           => /\ dag.cell \notin DOMAIN dag'.graph
              /\ \A W \in DOMAIN dag'.graph : ~HasEdge(dag'.graph, W, dag.cell)
              /\ \A R \in DOMAIN cells' :
                   HasEdge(dag.graph, dag.cell, R)
                   => \A W \in DOMAIN cells' :
                        HasEdge(dag'.graph, W, R)
                        <=> \E v \in cells'[R].reads : ClosestWriter(cells', W, R, v)
        /\ (dag.op = "deleted" /\ dag'.op = "staleAfter")
           => /\ dag.cell \notin SeqRange(dag'.list)
              /\ dag.cell \notin DOMAIN cells' ]_vars

\* C32: every graph buildDependencyGraph returns for a notebook is acyclic; on such a
\* graph detectCycles returns the empty list and getExecutionOrder does not throw
\* the circular-dependency error.
BuiltGraphsAreAcyclic ==
    /\ dag.op \notin {"none"} => ~HasCycle(dag.graph)
    /\ dag.op = "cycles" => dag.list = <<>>
    /\ dag.op # "orderThrows"
    /\ dag.thrown = NoError

\* detectCycles ran on a notebook in which a cell that reads and writes the same
\* variable has both a dependency and a dependent.
CyclesSearchedThroughRewriter ==
    /\ dag.op = "cycles"
    /\ \E W, M, R \in DOMAIN cells :
         /\ cells[M].reads \cap cells[M].writes # {}
         /\ HasEdge(dag.graph, W, M) /\ HasEdge(dag.graph, M, R)

\* C33: for every notebook getExecutionOrder returns a list and the list holds every
\* cell of the notebook exactly once, cells without reads and writes and cells
\* without dependents included.
OrderListsEveryCell ==
    dag.op \in {"order", "orderThrows"}
    => /\ dag.op = "order"
       /\ Len(dag.list) = Cardinality(ProjectCells(cells, "p1"))
       /\ SeqRange(dag.list) = ProjectCells(cells, "p1")

\* getExecutionOrder returned the order of a notebook that holds a cell without
\* reads and writes, and a dependent cell that nothing depends on.
OrderedWithIsolatedCell ==
    /\ dag.op = "order"
    /\ \E c \in DOMAIN cells :
         /\ cells[c].reads = {} /\ cells[c].writes = {}
         /\ c \in SeqRange(dag.list)
    /\ \E W, R \in DOMAIN cells :
         /\ HasEdge(dag.graph, W, R) /\ GraphGet(dag.graph, R) = <<>>
         /\ R \in SeqRange(dag.list)

\* C37: the list getAllDependents returns names every transitive dependent once, so
\* the count markDependentsAsStale returns is the number of distinct cells it marked
\* stale.
StaleCountIsDistinctCells ==
    dag.op = "stale"
    => /\ Len(dag.list) = Cardinality(SeqRange(dag.list))
       /\ Len(dag.list) = Cardinality(Closure(dag.graph, dag.cell))
       /\ Len(dag.list) = Cardinality({ id \in DOMAIN cells : cells[id].executionState = "stale" })

\* The update of an enqueue(c) has been made and the call is about to return.
EnqueueDone(c) == \E r \in reqs : r.kind = "enqueue" /\ r.cell = c /\ r.pc = "publish"

\* C34: with a compute service that always answers and a fairly scheduled worker,
\* every cell for which enqueue has done its work is eventually run by the worker.
EnqueuedCellRuns ==
    \A c \in CellIds : (collab = "ok" /\ EnqueueDone(c)) ~> WorkerRuns(c)

\* The cells that c depends on, directly or transitively, in a graph built from rows.
Upstream(rows, c) ==
    { u \in DOMAIN rows :
        \E sorted \in SortedCells(rows, ProjectOf(rows, c)) :
            c \in Closure(buildDependencyGraph(rows, sorted), u) }

====
